---- MODULE Spec2Model ----
(***************************************************************************)
(* Model of the single-symbol limit order book of vertexladder:            *)
(* OrderBook (src/src/Core/OrderBook.cpp) with Order and PriceLevel        *)
(* (src/include/orderbook/Core/Order.hpp).                                 *)
(*                                                                         *)
(* One step of Spec is one command applied by the consumer thread          *)
(* (processAddOrder / processCancelOrder / processModifyOrder), including  *)
(* the matching it triggers.                                               *)
(*                                                                         *)
(* Representation.                                                         *)
(*  - Order objects live in the heap `orders`, keyed by order id; the      *)
(*    order index is the only way an id reaches an object, and ModelSound  *)
(*    checks that no two live objects share an id.                         *)
(*  - PriceLevel objects live in the heap `levels`, keyed by a level       *)
(*    handle (the PriceLevel* of the code).  A destroyed level leaves the  *)
(*    heap; its handle may be reused by a later allocation.                *)
(*  - The intrusive list head/next/prev/tail of a level is the sequence q  *)
(*    of order ids, head first.                                            *)
(*  - Quantity is uint64_t.  A value is represented by its residue of      *)
(*    least absolute value modulo 2^64 (so -1 stands for 2^64 - 1):        *)
(*    + and - are then exact, and the unsigned comparisons are ULt / ULe.  *)
(*  - Price is double.  Prices are whole units, as in the scenarios of     *)
(*    the specification; a comparison against MinPriceIncrement (0.01) is  *)
(*    carried out in hundredths.                                           *)
(*  - Use of a deleted Order (matchAgainstPriceLevel deleting the          *)
(*    incoming order it was asked to match) is undefined behaviour.  Every *)
(*    continuation reaches `delete order_raw` in processAddOrder for a     *)
(*    pointer MemoryManager no longer tracks, which calls std::abort       *)
(*    (MemoryManager.hpp:153-168), unless the process faults earlier: all  *)
(*    outcomes end the process.  The model records it as crashed, keeps    *)
(*    the book as the last completed command left it, and keeps the trades *)
(*    that were published before the first invalid access.  An incoming    *)
(*    order matched against itself without becoming fully filled keeps the *)
(*    consumer in matchAgainstPriceLevel for ever; no later command is     *)
(*    processed, and the model records that as crashed too.                *)
(*  - executeMatching walks the opposite ladder with a reverse iterator    *)
(*    while matchAgainstPriceLevel erases levels from that vector.  The    *)
(*    iterator is a pointer into the vector's storage, which erase never   *)
(*    reallocates; the walk is modelled by that pointer's position.        *)
(***************************************************************************)
EXTENDS Integers, Sequences, FiniteSets, TLC

\* std::numeric_limits<Quantity>::max() = 2^64 - 1, as a residue (see above)
QuantityMax == -1

\* ---------------------------------------------------------------- bounds
MaxOrderId == 3
MaxPrice == 3
MaxQty == 2
MaxLevels == 3
MaxCommands == 4
\* producer threads of the ingestion model
MaxProducers == 3
\* OrderBook::OrderQueueCount is 4 and OrderBook::OrderQueueCapacity 100000 in
\* the code; the ingestion model keeps fewer shards and shorter rings, so that
\* one producer more than there are shards, and a full ring, are within reach
OrderQueueCount == 2
OrderQueueCapacity == 2
\* OrderBook instances in one process, and the trades each of them executes,
\* in the model of the trade id counter
MaxBooks == 2
MaxTrades == 3
\* messages handed to the market data publisher in the model of its sequence
\* numbers
MaxMessages == 6
\* external market updates applied by poll, and the commands applied before
\* them
MaxUpdates == 1
MaxCommandsBeforeUpdates == 2
\* the template parameter of the LockFreeQueue under test, and the items pushed
Capacity == 3
MaxItems == 5

OrderIds == 1..MaxOrderId
PriceSet == 1..MaxPrice
\* quantities offered to the book: small ones, and the largest Quantity
QtySet == (0..MaxQty) \cup {QuantityMax}
Sides == {"Buy", "Sell"}
NULL == 0

\* ------------------------------------------------------ program constants
\* OrderBook::MinPriceIncrement = 0.01, in hundredths of a price unit
MinPriceIncrementCents == 1
\* a whole price unit in hundredths
CentsPerUnit == 100
\* RiskManager::RiskLimits defaults
max_order_size == 10000
min_price_cents == 1
max_price_units == 1000000
max_position == 100000

VARIABLES
  orders,        \* heap of Order objects: id -> Order
  levels,        \* heap of PriceLevel objects: handle -> PriceLevel
  bids,          \* bids_: handles, ascending price, best bid at the back
  asks,          \* asks_: handles, descending price, best ask at the back
  price_index,   \* price_index_: price -> handle
  order_index,   \* order_index_: id -> OrderLocation
  trade_counter, \* static trade_counter of executeTrade
  book_sequence, \* static book_sequence of publishBookUpdate
  risk,          \* "none": no risk manager; "bypassed"; "active"
  market_data,   \* TRUE iff a market data publisher is attached
  arrival,       \* history: handle -> ids in the order they joined the level
  lastCmd,       \* history: the command applied last
  lastTrades,    \* history: trades published by the command applied last
  processed_count, \* processed_count of processLoop
  crashed        \* the consumer has stopped: aborted or stuck (see above)

VARIABLES
  order_queues,            \* order_queues_: shard -> ring (buffer, read_index, write_index)
  order_data_available,    \* order_data_available_
  order_producer_rr_index, \* order_producer_rr_index_
  producers,     \* producer thread -> position in addOrder / cancelOrder / modifyOrder
  consumer,      \* position of the consumer thread in processLoop
  waiter,        \* position of the thread that calls waitForCompletion
  applied_log,   \* history: the requests the consumer has applied, in order
  calls          \* history: the calls that have returned to their producer

VARIABLES
  instances      \* OrderBook instance -> position of its consumer thread in
                 \* executeTrade, and history: the ids of the trades it made

VARIABLES
  feed           \* the MarketDataPublisher: disabled_, sequence_number_, and
                 \* history: the sequence numbers of the book updates and of
                 \* the best-price snapshots sent so far

VARIABLES
  polled,        \* history: the external market updates poll has applied
  engine,        \* a MatchingEngine call: the incoming order, the levels it is
                 \* matched against, and the MatchResult once it has returned
  poller,        \* position of the thread that calls poll
  destructor,    \* running_, and the position of the thread in ~OrderBook
  lfq            \* a LockFreeQueue with its producer and its consumer thread

\* the state outside the book and its queues
extvars == <<feed, polled, engine, poller, destructor, lfq>>

qvars == <<order_queues, order_data_available, order_producer_rr_index,
           producers, consumer, waiter, applied_log, calls>>

bookvars == <<orders, levels, bids, asks, price_index, order_index, trade_counter,
              book_sequence, risk, market_data, arrival, lastCmd, lastTrades, crashed,
              processed_count, instances, extvars>>

vars == <<orders, levels, bids, asks, price_index, order_index, trade_counter,
          book_sequence, risk, market_data, arrival, lastCmd, lastTrades, crashed, processed_count,
          order_queues, order_data_available, order_producer_rr_index,
          producers, consumer, waiter, applied_log, calls, instances, extvars>>

\* ------------------------------------------------------------- utilities
Put(f, k, v) == [x \in (DOMAIN f) \cup {k} |-> IF x = k THEN v ELSE f[x]]

Drop(f, k) == [x \in (DOMAIN f) \ {k} |-> f[x]]

Without(s, x) == SelectSeq(s, LAMBDA y : y # x)

InsertAt(s, i, x) == SubSeq(s, 1, i - 1) \o <<x>> \o SubSeq(s, i, Len(s))

RemoveAt(s, i) == SubSeq(s, 1, i - 1) \o SubSeq(s, i + 1, Len(s))

IndexOf(s, x) == IF \E i \in 1..Len(s) : s[i] = x
                 THEN CHOOSE i \in 1..Len(s) : s[i] = x /\ \A j \in 1..(i - 1) : s[j] # x
                 ELSE 0

Range(s) == {s[i] : i \in 1..Len(s)}

Abs(x) == IF x < 0 THEN -x ELSE x

\* unsigned 64-bit comparisons on residues of least absolute value
ULt(a, b) == IF (a >= 0) = (b >= 0) THEN a < b ELSE a >= 0

ULe(a, b) == a = b \/ ULt(a, b)

UMin(a, b) == IF ULt(b, a) THEN b ELSE a

\* ----------------------------------------------------------------- Order
NewOrder(id, side, price, quantity) ==
  [id |-> id, side |-> side, price |-> price, quantity |-> quantity,
   filled_quantity |-> 0, status |-> "New"]

isFullyFilled(o) == ULe(o.quantity, o.filled_quantity)

remainingQuantity(o) == o.quantity - o.filled_quantity

fill(o, fill_quantity) ==
  LET o1 == [o EXCEPT !.filled_quantity = @ + fill_quantity]
  IN  [o1 EXCEPT !.status = IF isFullyFilled(o1) THEN "Filled" ELSE "PartiallyFilled"]

\* ------------------------------------------------------------ PriceLevel
NewPriceLevel(p) == [price |-> p, total_quantity |-> 0, order_count |-> 0, q |-> <<>>]

\* a level that links the new order at the head of its list
addOrderAtHead(L, o) ==
  [L EXCEPT !.q = <<o.id>> \o @,
            !.total_quantity = @ + remainingQuantity(o),
            !.order_count = @ + 1]

addOrder(L, o) ==
  [L EXCEPT !.q = Append(@, o.id),
            !.total_quantity = @ + remainingQuantity(o),
            !.order_count = @ + 1]

removeOrder(L, o) ==
  [L EXCEPT !.total_quantity = @ - remainingQuantity(o),
            !.order_count = @ - 1,
            !.q = Without(@, o.id)]

updateQuantity(L, o, filled_quantity) ==
  LET L1 == IF ULe(filled_quantity, L.total_quantity)
            THEN [L EXCEPT !.total_quantity = @ - filled_quantity]
            ELSE L
  IN  IF isFullyFilled(o) THEN removeOrder(L1, o) ELSE L1

isEmpty(L) == L.order_count = 0 \/ L.q = <<>>

getFirstOrder(L) == IF L.q = <<>> THEN NULL ELSE Head(L.q)

\* order->next within its level
NextOrder(L, id) ==
  LET i == IndexOf(L.q, id)
  IN  IF i = 0 \/ i = Len(L.q) THEN NULL ELSE L.q[i + 1]

OrderLocation(o, pl, s) == [order |-> o, price_level |-> pl, side |-> s]

\* ------------------------------------------------------ the book, as a value
\* The operators below take and return the whole mutable state as a record.
Book == [orders |-> orders, levels |-> levels, bids |-> bids, asks |-> asks,
         price_index |-> price_index, order_index |-> order_index,
         trade_counter |-> trade_counter, book_sequence |-> book_sequence,
         market_data |-> market_data, arrival |-> arrival,
         trades |-> <<>>, ub |-> FALSE]

Ladder(b, side) == IF side = "Buy" THEN b.bids ELSE b.asks

SetLadder(b, side, l) == IF side = "Buy" THEN [b EXCEPT !.bids = l] ELSE [b EXCEPT !.asks = l]

OppositeSide(side) == IF side = "Buy" THEN "Sell" ELSE "Buy"

\* PriceLevel::addOrder / removeOrder / updateQuantity applied to a level of the
\* book; arrival keeps, per level, the order in which its orders joined it.
LevelAddOrder(b, lid, id) ==
  [b EXCEPT !.levels[lid] = addOrder(@, b.orders[id]),
            !.arrival[lid] = Append(@, id)]

LevelRemoveOrder(b, lid, id) ==
  [b EXCEPT !.levels[lid] = removeOrder(@, b.orders[id]),
            !.arrival[lid] = Without(@, id)]

LevelUpdateQuantity(b, lid, id, filled_quantity) ==
  [b EXCEPT !.levels[lid] = updateQuantity(@, b.orders[id], filled_quantity),
            !.arrival[lid] = IF isFullyFilled(b.orders[id]) THEN Without(@, id) ELSE @]

\* delete of an Order object
DeleteOrder(b, id) == [b EXCEPT !.orders = Drop(@, id)]

EraseOrderIndex(b, id) ==
  IF id \in DOMAIN b.order_index THEN [b EXCEPT !.order_index = Drop(@, id)] ELSE b

\* publishBookUpdate: a sequence number is drawn only when a publisher is attached
publishBookUpdate(b) ==
  IF b.market_data THEN [b EXCEPT !.book_sequence = @ + 1] ELSE b

\* std::lower_bound over a ladder: the first position whose level does not
\* compare before price (bids: level.price < p, asks: level.price > p)
LowerBound(b, side, price) ==
  LET l == Ladder(b, side)
      before(i) == IF side = "Buy" THEN b.levels[l[i]].price < price
                   ELSE b.levels[l[i]].price > price
      stop == {i \in 1..Len(l) : ~before(i)}
  IN  IF stop = {} THEN Len(l) + 1 ELSE CHOOSE i \in stop : \A j \in stop : i <= j

\* the allocator hands out the lowest free handle
NewLevelHandle(b) ==
  CHOOSE h \in 1..(MaxLevels + 1) : h \notin DOMAIN b.levels
                                    /\ \A g \in 1..(h - 1) : g \in DOMAIN b.levels

\* levels.emplace(insert_pos, ...) and price_index_[price] = new_level
emplacePriceLevel(b, h, pos, price, side) ==
  [book |-> SetLadder([b EXCEPT !.levels = Put(@, h, NewPriceLevel(price)),
                                !.arrival = Put(@, h, <<>>),
                                !.price_index = Put(@, price, h)],
                      side, InsertAt(Ladder(b, side), pos, h)),
   level |-> h]

\* returns the book and the level found or created
findOrCreatePriceLevel(b, price, side) ==
  IF price \in DOMAIN b.price_index
  THEN IF b.price_index[price] # NULL
            /\ Abs(b.levels[b.price_index[price]].price - price) * CentsPerUnit
                 < MinPriceIncrementCents
       THEN [book |-> b, level |-> b.price_index[price]]
       ELSE emplacePriceLevel([b EXCEPT !.price_index = Drop(@, price)],
                              NewLevelHandle(b), LowerBound(b, side, price), price, side)
  ELSE emplacePriceLevel(b, NewLevelHandle(b), LowerBound(b, side, price), price, side)

\* levels.erase(it), when the level is found in the ladder of side
eraseFromLadder(b, lid, side, i) ==
  IF i # 0
  THEN [SetLadder(b, side, RemoveAt(Ladder(b, side), i))
          EXCEPT !.levels = Drop(@, lid), !.arrival = Drop(@, lid)]
  ELSE b

removePriceLevel(b, lid, side) ==
  IF lid = NULL THEN b
  ELSE IF ~isEmpty(b.levels[lid]) THEN b
  ELSE eraseFromLadder(
         IF b.levels[lid].price \in DOMAIN b.price_index
         THEN [b EXCEPT !.price_index = Drop(@, b.levels[lid].price)] ELSE b,
         lid, side, IndexOf(Ladder(b, side), lid))

\* the guarded clean-up that follows every removal from a level
RemoveLevelIfEmpty(b, lid, side) ==
  IF isEmpty(b.levels[lid])
       /\ b.levels[lid].price \in DOMAIN b.price_index
       /\ b.price_index[b.levels[lid].price] = lid
  THEN removePriceLevel(b, lid, side)
  ELSE b

\* history: the prices of the levels of a ladder that still hold an order
OpenPrices(b, side) ==
  {b.levels[h].price : h \in {g \in Range(Ladder(b, side)) : b.levels[g].q # <<>>}}

executeTrade(b, aggressive, passive, lid, trade_price, trade_quantity) ==
  LET ao == b.orders[aggressive]
      po == b.orders[passive]
      b1 == [b EXCEPT !.orders[aggressive] = fill(@, trade_quantity)]
      b2 == [b1 EXCEPT !.orders[passive] = fill(@, trade_quantity)]
      trade == [id |-> b.trade_counter,
                buy_order_id |-> IF ao.side = "Buy" THEN ao.id ELSE po.id,
                sell_order_id |-> IF ao.side = "Sell" THEN ao.id ELSE po.id,
                price |-> trade_price,
                quantity |-> trade_quantity,
                \* history fields, not part of Trade
                taker |-> aggressive, maker |-> passive, level |-> lid,
                maker_price |-> po.price, maker_side |-> po.side, taker_side |-> ao.side,
                taker_limit |-> ao.price,
                taker_remaining |-> remainingQuantity(ao),
                maker_remaining |-> remainingQuantity(po),
                maker_rank |-> IndexOf(b.arrival[lid], passive),
                open_prices |-> OpenPrices(b, OppositeSide(ao.side))]
  IN  [b2 EXCEPT !.trade_counter = @ + 1, !.trades = Append(@, trade)]
\* ------------------------------------------------------------- matching
\* a trade quantity that does not look at what the resting order has left
tradeQuantityOfIncoming(incoming_order, current_order) ==
  remainingQuantity(incoming_order)

\* Quantity trade_quantity = std::min(incoming.remaining, current.remaining)
tradeQuantity(incoming_order, current_order) ==
  UMin(remainingQuantity(incoming_order), remainingQuantity(current_order))

\* The loop of matchAgainstPriceLevel, written as three operators that call
\* each other: MatchLoop is the loop test, MatchOrder one round of the body
\* up to the trade, MatchNext the end of the round.
RECURSIVE MatchLoop(_, _, _, _)
RECURSIVE MatchOrder(_, _, _, _, _, _)
RECURSIVE MatchNext(_, _, _, _, _)

\* After the trade.  Deleting the incoming order itself (it was linked into
\* the level it is matched against) makes every later access to it invalid:
\* ub.  An incoming order filled twice and still short of its quantity
\* (possible only once filled_quantity has wrapped) gets the same
\* filled_quantity back in the next round: the loop never ends, ub as well.
MatchNext(b, incoming, lid, current_order, next_order) ==
  IF isFullyFilled(b.orders[current_order])
  THEN IF current_order = incoming
       THEN [DeleteOrder(EraseOrderIndex(b, current_order), current_order) EXCEPT !.ub = TRUE]
       ELSE MatchLoop(DeleteOrder(EraseOrderIndex(b, current_order), current_order),
                      incoming, lid, next_order)
  ELSE IF current_order = incoming
       THEN [b EXCEPT !.ub = TRUE]
       ELSE MatchLoop(b, incoming, lid, current_order)

MatchOrder(b, incoming, lid, current_order, next_order, trade_quantity) ==
  IF trade_quantity = 0
  THEN IF remainingQuantity(b.orders[current_order]) = 0
       THEN MatchLoop(DeleteOrder(EraseOrderIndex(
                        LevelRemoveOrder(b, lid, current_order), current_order),
                        current_order),
                      incoming, lid, next_order)
       ELSE b
  ELSE MatchNext(publishBookUpdate(LevelUpdateQuantity(
                   executeTrade(b, incoming, current_order, lid,
                                b.levels[lid].price, trade_quantity),
                   lid, current_order, trade_quantity)),
                 incoming, lid, current_order, next_order)

MatchLoop(b, incoming, lid, current_order) ==
  IF current_order = NULL \/ isFullyFilled(b.orders[incoming]) THEN b
  ELSE MatchOrder(b, incoming, lid, current_order,
                  NextOrder(b.levels[lid], current_order),
                  tradeQuantity(b.orders[incoming], b.orders[current_order]))

\* the clean-up of the level at the end of matchAgainstPriceLevel
matchCleanUp(b, incoming, lid) ==
  IF b.ub THEN b
  ELSE RemoveLevelIfEmpty(b, lid, OppositeSide(b.orders[incoming].side))

matchAgainstPriceLevel(b, incoming, lid) ==
  matchCleanUp(MatchLoop(b, incoming, lid, getFirstOrder(b.levels[lid])), incoming, lid)

\* The loop of executeMatching.  it is the reverse iterator: it points at the
\* element just before position base of the opposite vector, and ++it lowers
\* base by one whatever was erased meanwhile.
RECURSIVE ExecuteLoop(_, _, _)
RECURSIVE ExecuteNext(_, _, _)

\* ++it, after matchAgainstPriceLevel has returned
ExecuteNext(b, incoming, base) ==
  IF b.ub THEN b ELSE ExecuteLoop(b, incoming, base - 1)

ExecuteLoop(b, incoming, base) ==
  IF base = 0 THEN b
  ELSE IF base > Len(Ladder(b, OppositeSide(b.orders[incoming].side)))
  THEN [b EXCEPT !.ub = TRUE]
  ELSE
    LET lid == Ladder(b, OppositeSide(b.orders[incoming].side))[base]
        o == b.orders[incoming]
        can_match == IF o.side = "Buy" THEN o.price >= b.levels[lid].price
                     ELSE o.price <= b.levels[lid].price
    IN  IF isEmpty(b.levels[lid]) \/ isFullyFilled(o) THEN b
        ELSE IF ~can_match THEN b
        ELSE ExecuteNext(matchAgainstPriceLevel(b, incoming, lid), incoming, base)

executeMatching(b, incoming) ==
  ExecuteLoop(b, incoming, Len(Ladder(b, OppositeSide(b.orders[incoming].side))))

processMatching(b, incoming) ==
  LET o == b.orders[incoming]
      opposite_levels == Ladder(b, OppositeSide(o.side))
  IN  IF opposite_levels = <<>> THEN b
      ELSE LET best_level == b.levels[opposite_levels[Len(opposite_levels)]]
               can_match == IF o.side = "Buy" THEN o.price >= best_level.price
                            ELSE o.price <= best_level.price
           IN  IF can_match /\ ~isEmpty(best_level)
               THEN executeMatching(b, incoming)
               ELSE b

\* ------------------------------------------------------------------ risk
validateOrderSize(quantity) == ULt(0, quantity) /\ ULe(quantity, max_order_size)

validatePrice(price) ==
  price * CentsPerUnit >= min_price_cents /\ price <= max_price_units

\* Within the bounds of the model an account's position stays far inside
\* [min_position, max_position]; the position used here is the flat one.
validatePosition(quantity, side) ==
  LET position_change == IF side = "Sell" THEN -quantity ELSE quantity
  IN  position_change >= -max_position /\ position_change <= max_position

validateOrder(quantity, price, side) ==
  validateOrderSize(quantity) /\ validatePrice(price) /\ validatePosition(quantity, side)

\* -------------------------------------------------------------- commands
\* Each returns [book, applied]: applied is FALSE when the command returned
\* early (risk rejection, duplicate id, unknown id).

\* processAddOrder once the incoming order is known to be (partly) filled
processAddOrderFilled(b, price_level, id, side) ==
  IF isFullyFilled(b.orders[id])
  THEN [book |-> DeleteOrder(EraseOrderIndex(
                   RemoveLevelIfEmpty(publishBookUpdate(b), price_level, side), id), id),
        applied |-> TRUE]
  ELSE [book |-> publishBookUpdate(b), applied |-> TRUE]

\* processAddOrder after processMatching has returned
processAddOrderMatched(b, price_level, id, side) ==
  IF b.ub THEN [book |-> b, applied |-> TRUE]
  ELSE IF ULt(0, b.orders[id].filled_quantity)
  THEN processAddOrderFilled(
         LevelUpdateQuantity(b, price_level, id, b.orders[id].filled_quantity),
         price_level, id, side)
  ELSE [book |-> b, applied |-> TRUE]

\* processAddOrder from the level f.level on: link, index, publish, match
processAddOrderAt(f, id, side, price, quantity) ==
  processAddOrderMatched(
    processMatching(
      publishBookUpdate(
        [LevelAddOrder([f.book EXCEPT !.orders = Put(@, id, NewOrder(id, side, price, quantity))],
                       f.level, id)
           EXCEPT !.order_index = Put(@, id, OrderLocation(id, f.level, side))]),
      id),
    f.level, id, side)

\* an Add that does not look the id up in the index
processAddOrderUnindexed(b, riskMode, id, side, price, quantity) ==
  IF riskMode = "active" /\ ~validateOrder(quantity, price, side)
  THEN [book |-> b, applied |-> FALSE]
  ELSE processAddOrderAt(findOrCreatePriceLevel(b, price, side), id, side, price, quantity)

\* an Add that does not ask the risk manager
processAddOrderUnvalidated(b, riskMode, id, side, price, quantity) ==
  IF id \in DOMAIN b.order_index
  THEN [book |-> b, applied |-> FALSE]
  ELSE processAddOrderAt(findOrCreatePriceLevel(b, price, side), id, side, price, quantity)

processAddOrder(b, riskMode, id, side, price, quantity) ==
  IF riskMode = "active" /\ ~validateOrder(quantity, price, side)
  THEN [book |-> b, applied |-> FALSE]
  ELSE IF id \in DOMAIN b.order_index
  THEN [book |-> b, applied |-> FALSE]
  ELSE processAddOrderAt(findOrCreatePriceLevel(b, price, side), id, side, price, quantity)

\* a cancel with the test of the index inverted: a known id is turned away,
\* an unknown one empties the index
processCancelOrderInverted(b, id) ==
  IF id \in DOMAIN b.order_index \/ b.order_index = <<>> THEN [book |-> b, applied |-> FALSE]
  ELSE [book |-> [b EXCEPT !.order_index = <<>>], applied |-> TRUE]

\* a cancel that forgets the order but leaves it in its level
processCancelOrderIndexOnly(b, id) ==
  [book |-> [b EXCEPT !.order_index = Drop(@, id)], applied |-> id \in DOMAIN b.order_index]

processCancelOrder(b, id) ==
  IF id \notin DOMAIN b.order_index THEN [book |-> b, applied |-> FALSE]
  ELSE
    LET location == b.order_index[id]
    IN  IF location.order = NULL \/ location.price_level = NULL
        THEN [book |-> b, applied |-> FALSE]
        ELSE [book |->
                [DeleteOrder(
                   RemoveLevelIfEmpty(
                     publishBookUpdate(LevelRemoveOrder(b, location.price_level, location.order)),
                     location.price_level, location.side),
                   location.order)
                   EXCEPT !.order_index = Drop(@, id)],
              applied |-> TRUE]

\* processModifyOrder: the order joins the level f.level at its new price
modifyRelink(f, id, order) ==
  [publishBookUpdate(LevelAddOrder(f.book, f.level, order))
     EXCEPT !.order_index = Put(@, id, OrderLocation(order, f.level, f.book.orders[order].side))]

\* processModifyOrder: the price part
modifyPrice(b, id, new_price) ==
  LET location == b.order_index[id]
      order == location.order
  IN  IF new_price > 0
           /\ Abs(b.orders[order].price - new_price) * CentsPerUnit > MinPriceIncrementCents
      THEN modifyRelink(
             findOrCreatePriceLevel(
               [RemoveLevelIfEmpty(
                  publishBookUpdate(LevelRemoveOrder(b, location.price_level, order)),
                  location.price_level, location.side)
                  EXCEPT !.orders[order].price = new_price],
               new_price, b.orders[order].side),
             id, order)
      ELSE b

\* a quantity change that starts the order's fills again from nothing
modifiedOrderRefilled(o, new_quantity) ==
  [o EXCEPT !.quantity = new_quantity, !.filled_quantity = 0]

\* order->quantity = new_quantity, and the reset of a larger filled_quantity
modifiedOrder(o, new_quantity) ==
  [o EXCEPT !.quantity = new_quantity,
            !.filled_quantity = IF ULt(new_quantity, @) THEN new_quantity ELSE @]

\* processModifyOrder: the quantity part
modifyQuantity(b, id, new_quantity) ==
  LET order == b.order_index[id].order
      current_level == b.order_index[id].price_level
  IN  IF ULt(0, new_quantity)
      THEN publishBookUpdate(
             [b EXCEPT !.levels[current_level].total_quantity =
                          (@ - remainingQuantity(b.orders[order]))
                            + remainingQuantity(modifiedOrder(b.orders[order], new_quantity)),
                       !.orders[order] = modifiedOrder(@, new_quantity)])
      ELSE b

processModifyOrder(b, id, new_price, new_quantity) ==
  IF id \notin DOMAIN b.order_index THEN [book |-> b, applied |-> FALSE]
  ELSE IF b.order_index[id].order = NULL \/ b.order_index[id].price_level = NULL
  THEN [book |-> b, applied |-> FALSE]
  ELSE [book |-> modifyQuantity(modifyPrice(b, id, new_price), id, new_quantity),
        applied |-> TRUE]
\* --------------------------------------------------------------- queries
\* std::nullopt
none == -1

bestBid == IF bids = <<>> THEN none ELSE levels[bids[Len(bids)]].price

bestAsk == IF asks = <<>> THEN none ELSE levels[asks[Len(asks)]].price

\* ------------------------------------------------------ command ingestion
\* Producers call addOrder / cancelOrder / modifyOrder, which push an
\* OrderRequest to the caller's shard, set order_data_available_ and notify the
\* condition variable; the consumer thread runs processLoop.
Producers == 1..MaxProducers

Shards == 0..(OrderQueueCount - 1)

\* boost::lockfree::spsc_queue keeps one slot more than its capacity
Slots == 0..OrderQueueCapacity

next_index(i) == (i + 1) % (OrderQueueCapacity + 1)

\* OrderRequest; producer and seq are history: who submitted it, as which of
\* its calls
OrderRequest(type, id, side, price, quantity, producer, seq) ==
  [type |-> type, id |-> id, side |-> side, price |-> price, quantity |-> quantity,
   producer |-> producer, seq |-> seq]

\* a slot of a ring that no push has written
Unwritten == OrderRequest("Unwritten", 0, "Buy", 0, 0, 0, 0)

\* What a pop reads from a slot that was never written is indeterminate; the
\* model offers zero-filled storage and the bytes of a cancel request.
GarbageRequests ==
  {OrderRequest("Add", 0, "Buy", 0, 0, 0, 0), OrderRequest("Cancel", 1, "Buy", 0, 0, 0, 0)}

NewQueue == [buffer |-> [i \in Slots |-> Unwritten], read_index |-> 0, write_index |-> 0]

\* spsc_queue::empty
queueEmpty(q) == q.write_index = q.read_index

\* std::numeric_limits<size_t>::max(): the thread has no shard yet
unbound == -1

IdleProducer(program) ==
  [pc |-> "call", program |-> program, local_index |-> unbound, write_index |-> 0,
   pushed |-> FALSE, seq |-> 1]

\* the consumer thread starts at the wait of processLoop
IdleConsumer == [pc |-> "wait", shard |-> 0, any_processed |-> FALSE, req |-> Unwritten]

\* the queues after construction, with the calls each producer is going to make
QueuesInit(programs) ==
  /\ order_queues = [s \in Shards |-> NewQueue]
  /\ order_data_available = FALSE
  /\ order_producer_rr_index = 0
  /\ producers = [p \in Producers |-> IdleProducer(programs[p])]
  /\ consumer = IdleConsumer
  /\ waiter = "idle"
  /\ applied_log = <<>>
  /\ calls = <<>>

\* ------------------------------------------------------- the state machine
\* The inputs of a command that returned early are not recorded.
Cmd(type, id, side, price, quantity, applied) ==
  IF applied
  THEN [type |-> type, id |-> id, side |-> side, price |-> price,
        quantity |-> quantity, applied |-> applied]
  ELSE [type |-> type, id |-> NULL, side |-> "Buy", price |-> 0,
        quantity |-> 0, applied |-> applied]

\* LockFreeQueue(): head_(0), tail_(0), the buffer default-constructed; with
\* the two threads outside push and pop, and the history of their calls: the
\* items of the pushes and pops that returned true, and for the last push and
\* the last pop what it returned and how many items were stored when it
\* loaded the index of the other thread
NewLockFreeQueue ==
  [buffer |-> [i \in 0..(Capacity - 1) |-> 0], head |-> 0, tail |-> 0,
   push_pc |-> "idle", current_tail |-> 0, item |-> 0,
   pop_pc |-> "idle", current_head |-> 0, out |-> 0,
   pushed |-> <<>>, popped |-> <<>>,
   last_push |-> [returned |-> "none", stored |-> 0],
   last_pop |-> [returned |-> "none", stored |-> 0]]

\* the OrderBook instances of the process
Books == 1..MaxBooks

\* the consumer thread of an instance outside executeTrade, no trade made yet
IdleInstance == [pc |-> "idle", trade_id |-> 0, ids |-> <<>>]

\* The book after construction: with no risk manager, or with one that is not
\* bypassed; here without a market data publisher.
BookConstructed(publisher) ==
  /\ orders = <<>>
  /\ levels = <<>>
  /\ bids = <<>>
  /\ asks = <<>>
  /\ price_index = <<>>
  /\ order_index = <<>>
  /\ trade_counter = 1
  /\ book_sequence = 0
  /\ market_data = publisher
  /\ arrival = <<>>
  /\ lastCmd = Cmd("None", NULL, "Buy", 0, 0, FALSE)
  /\ lastTrades = <<>>
  /\ crashed = FALSE
  /\ processed_count = 0
  /\ instances = [k \in Books |-> IdleInstance]
  /\ polled = 0
  /\ engine = [pc |-> "idle"]
  /\ poller = "idle"
  /\ destructor = [running |-> TRUE, pc |-> "alive"]
  /\ lfq = NewLockFreeQueue
  /\ feed = [disabled |-> FALSE, sequence_number |-> 0,
             book_updates |-> <<>>, best_prices |-> <<>>]

BookInit == BookConstructed(FALSE)

\* Spec looks at the commands as the consumer applies them, one per step; the
\* threads that bring them there stay as they are after construction.
Init ==
  /\ BookInit
  /\ risk \in {"none", "active"}
  /\ QueuesInit([p \in Producers |-> <<>>])

\* The command has run to its end (or to the end of the process): r is what
\* the handler returned, c the command.
Commit(r, c) ==
  /\ lastCmd' = c
  /\ processed_count' = processed_count + 1
  /\ lastTrades' = r.book.trades
  /\ UNCHANGED <<risk, market_data, instances, extvars>>
  /\ IF r.book.ub
     THEN /\ crashed' = TRUE
          /\ UNCHANGED <<orders, levels, bids, asks, price_index, order_index,
                         trade_counter, book_sequence, arrival>>
     ELSE /\ crashed' = FALSE
          /\ orders' = r.book.orders
          /\ levels' = r.book.levels
          /\ bids' = r.book.bids
          /\ asks' = r.book.asks
          /\ price_index' = r.book.price_index
          /\ order_index' = r.book.order_index
          /\ trade_counter' = r.book.trade_counter
          /\ book_sequence' = r.book.book_sequence
          /\ arrival' = r.book.arrival

\* one round of processLoop: the command of the given type is handled, r is
\* what its handler returned.  The model keeps at most MaxLevels price levels.
Process(r, type, id, side, price, quantity) ==
  /\ Cardinality(DOMAIN r.book.levels) <= MaxLevels
  /\ Commit(r, Cmd(type, id, side, price, quantity, r.applied))

\* The ids offered to a command.  The book uses an order id only as a key, so
\* of the ids not in use one stands for all of them, the lowest: it is the id
\* of a new order, and the unknown id of a Cancel or Modify.  The ids in use
\* are all offered.
CommandIds ==
  {id \in OrderIds : id \in DOMAIN order_index
                       \/ \A other \in OrderIds \ DOMAIN order_index : id <= other}

\* processLoop, case OrderRequest::Type::Add
Add ==
  /\ ~crashed
  /\ processed_count < MaxCommands
  /\ \E id \in CommandIds, side \in Sides, price \in PriceSet, quantity \in QtySet :
       Process(processAddOrder(Book, risk, id, side, price, quantity),
               "Add", id, side, price, quantity)
  /\ UNCHANGED qvars

\* processLoop, case OrderRequest::Type::Cancel
Cancel ==
  /\ ~crashed
  /\ processed_count < MaxCommands
  /\ \E id \in CommandIds :
       Process(processCancelOrder(Book, id), "Cancel", id, "Buy", 0, 0)
  /\ UNCHANGED qvars

\* processLoop, case OrderRequest::Type::Modify
Modify ==
  /\ ~crashed
  /\ processed_count < MaxCommands
  /\ \E id \in CommandIds, new_price \in PriceSet \cup {0}, new_quantity \in QtySet :
       Process(processModifyOrder(Book, id, new_price, new_quantity),
               "Modify", id, "Buy", new_price, new_quantity)
  /\ UNCHANGED qvars

Next == Add \/ Cancel \/ Modify

Spec == Init /\ [][Next]_vars

\* --------------------------------------------------- the trade id counter
\* SpecT follows the consumer threads of the OrderBook instances of one process
\* through the two lines of executeTrade that draw a trade id.  trade_counter
\* is a static local of executeTrade, one object for all instances, and
\* trade_counter++ is a plain load followed by a plain store.
InitT == Init

\* TradeId trade_id(trade_counter++): the load
TradeLoad(k) ==
  /\ instances[k].pc = "idle"
  /\ Len(instances[k].ids) < MaxTrades
  /\ instances' = [instances EXCEPT ![k].pc = "store", ![k].trade_id = trade_counter]
  /\ UNCHANGED <<orders, levels, bids, asks, price_index, order_index, trade_counter,
                 book_sequence, risk, market_data, arrival, lastCmd, lastTrades, crashed,
                 processed_count, qvars, extvars>>

\* TradeId trade_id(trade_counter++): the store, and the trade made with the id
TradeStore(k) ==
  /\ instances[k].pc = "store"
  /\ trade_counter' = instances[k].trade_id + 1
  /\ instances' = [instances EXCEPT ![k].pc = "idle",
                                    ![k].ids = Append(@, instances[k].trade_id)]
  /\ UNCHANGED <<orders, levels, bids, asks, price_index, order_index,
                 book_sequence, risk, market_data, arrival, lastCmd, lastTrades, crashed,
                 processed_count, qvars, extvars>>

NextT == \E k \in Books : TradeLoad(k) \/ TradeStore(k)

SpecT == InitT /\ [][NextT]_vars

\* ------------------------------------------------------ MatchingEngine
\* SpecE calls MatchingEngine::matchOrder once: on an incoming order and a
\* vector of levels of the opposite side, as the tests of the engine build
\* them.  A level is the queue of the remaining quantities of its orders,
\* head first; levels maps each price to its level, empty where there is none.

\* MatchingEngine::matchAgainstPriceLevel: the trades against one level.
\* current is the position of current_order in q, NULL for nullptr.
\* updateQuantity unlinks a resting order that is fully filled, and
\* removeOrder leaves its next pointer null: current_order->next, read after
\* it, is nullptr.
RECURSIVE engineMatchAgainstPriceLevel(_, _, _, _)
engineMatchAgainstPriceLevel(remaining, q, price, current) ==
  IF current = NULL \/ remaining = 0 THEN <<>>
  ELSE IF UMin(remaining, q[current]) = 0 THEN <<>>
  ELSE <<[price |-> price, quantity |-> UMin(remaining, q[current]), maker |-> current]>>
         \o engineMatchAgainstPriceLevel(
              remaining - UMin(remaining, q[current]),
              [q EXCEPT ![current] = @ - UMin(remaining, q[current])],
              price,
              IF q[current] = UMin(remaining, q[current]) THEN NULL ELSE current)

\* the quantity of a sequence of trades
RECURSIVE TradedQuantity(_)
TradedQuantity(trades) ==
  IF trades = <<>> THEN 0 ELSE Head(trades).quantity + TradedQuantity(Tail(trades))

\* the loop of matchBuyOrder / matchSellOrder over the levels sorted best
\* price first: the i-th price is i for a buy, counted from the top for a sell
RECURSIVE engineMatchLevels(_, _, _, _, _, _)
engineMatchLevels(side, limit, quantity, engine_levels, i, trades) ==
  LET price == IF side = "Buy" THEN i ELSE MaxPrice + 1 - i
      can_match == IF side = "Buy" THEN limit >= price ELSE price >= limit
  IN  IF i > MaxPrice THEN trades
      ELSE IF engine_levels[price] = <<>>
      THEN engineMatchLevels(side, limit, quantity, engine_levels, i + 1, trades)
      ELSE IF ~can_match THEN trades
      ELSE IF TradedQuantity(trades \o engineMatchAgainstPriceLevel(
                                quantity - TradedQuantity(trades),
                                engine_levels[price], price, 1)) = quantity
      THEN trades \o engineMatchAgainstPriceLevel(quantity - TradedQuantity(trades),
                                                  engine_levels[price], price, 1)
      ELSE engineMatchLevels(side, limit, quantity, engine_levels, i + 1,
                             trades \o engineMatchAgainstPriceLevel(
                                         quantity - TradedQuantity(trades),
                                         engine_levels[price], price, 1))

\* the test builds the incoming order and the levels: at every price up to two
\* resting orders
EngineSetUp ==
  /\ engine.pc = "idle"
  /\ \E side \in Sides, price \in PriceSet, quantity \in 1..(2 * MaxQty),
        engine_levels \in [PriceSet -> UNION {[1..n -> 1..MaxQty] : n \in 0..2}] :
       engine' = [pc |-> "built", side |-> side, price |-> price, quantity |-> quantity,
                  levels |-> engine_levels]
  /\ UNCHANGED <<orders, levels, bids, asks, price_index, order_index, trade_counter,
                 book_sequence, risk, market_data, arrival, lastCmd, lastTrades, crashed,
                 processed_count, instances, feed, polled, poller, destructor, lfq, qvars>>

\* MatchingEngine::matchOrder, and the MatchResult it returns
matchOrder ==
  /\ engine.pc = "built"
  /\ LET trades == engineMatchLevels(engine.side, engine.price, engine.quantity,
                                     engine.levels, 1, <<>>)
     IN  engine' = [pc |-> "matched", side |-> engine.side, price |-> engine.price,
                    quantity |-> engine.quantity, levels |-> engine.levels,
                    result |->
                      [trades |-> trades,
                       total_filled_quantity |-> TradedQuantity(trades),
                       fully_filled |-> TradedQuantity(trades) = engine.quantity,
                       remaining_order |->
                         IF TradedQuantity(trades) = engine.quantity THEN none
                         ELSE engine.quantity - TradedQuantity(trades)]]
  /\ UNCHANGED <<orders, levels, bids, asks, price_index, order_index, trade_counter,
                 book_sequence, risk, market_data, arrival, lastCmd, lastTrades, crashed,
                 processed_count, instances, feed, polled, poller, destructor, lfq, qvars>>

SpecE == Init /\ [][EngineSetUp \/ matchOrder]_vars

\* ------------------------------------------------- external market data
\* SpecX lets poll apply external market updates to the book the commands
\* have built.  The updates overwrite the counters of the levels, and a level
\* whose counter says 0 is destroyed with its orders still linked: the
\* commands run before the updates, none after them.
\* struct MarketUpdate, as applyExternalMarketData / applyExternalBookUpdate /
\* clearBook push it
MarketUpdates ==
  [type : {"Add", "Modify", "Remove"}, side : Sides, price : PriceSet,
   quantity : {0, MaxQty}, order_count : 0..1]
    \cup {[type |-> "SnapshotStart", side |-> "Buy", price |-> 0,
            quantity |-> 0, order_count |-> 0]}

\* poll, update.type == SnapshotStart: the orders linked into the levels of
\* the two ladders are deleted, the ladders and the indexes cleared
pollClear(b) ==
  [b EXCEPT !.orders =
              [id \in (DOMAIN b.orders)
                       \ UNION {Range(b.levels[h].q) :
                                  h \in (Range(b.bids) \cup Range(b.asks)) \cap DOMAIN b.levels}
                 |-> b.orders[id]],
            !.levels = <<>>, !.arrival = <<>>, !.bids = <<>>, !.asks = <<>>,
            !.price_index = <<>>, !.order_index = <<>>]

\* poll, Add / Modify: level->total_quantity and level->order_count are set
pollSetLevel(f, update) ==
  [f.book EXCEPT !.levels[f.level].total_quantity = update.quantity,
                 !.levels[f.level].order_count = update.order_count]

\* an update that also fills the orders of the level it names
pollUpdateFilling(b, update) ==
  IF update.type = "SnapshotStart" THEN pollClear(b)
  ELSE [b EXCEPT !.orders = [id \in DOMAIN b.orders |->
                               IF b.orders[id].price = update.price
                               THEN fill(b.orders[id], remainingQuantity(b.orders[id]))
                               ELSE b.orders[id]]]

\* poll: the body of the loop, for one update popped from a market queue
pollUpdate(b, update) ==
  IF update.type = "SnapshotStart" THEN pollClear(b)
  ELSE IF update.price \in DOMAIN b.price_index /\ b.price_index[update.price] # NULL
  THEN IF update.type \in {"Add", "Modify"}
       THEN pollSetLevel([book |-> b, level |-> b.price_index[update.price]], update)
       ELSE IF b.levels[b.price_index[update.price]].order_count = 0
       THEN removePriceLevel(b, b.price_index[update.price], update.side)
       ELSE pollSetLevel([book |-> b, level |-> b.price_index[update.price]],
                         [quantity |-> 0, order_count |-> 0])
  ELSE IF update.type \in {"Add", "Modify"}
  THEN pollSetLevel(findOrCreatePriceLevel(b, update.price, update.side), update)
  ELSE b

\* poll pops one update and applies it
Poll ==
  /\ ~crashed
  /\ polled < MaxUpdates
  /\ polled' = polled + 1
  /\ \E update \in MarketUpdates :
       LET b == pollUpdate(Book, update)
       IN  /\ Cardinality(DOMAIN b.levels) <= MaxLevels
           /\ lastCmd' = Cmd("MarketUpdate", NULL, update.side, update.price,
                             update.quantity, TRUE)
           /\ lastTrades' = b.trades
           /\ orders' = b.orders
           /\ levels' = b.levels
           /\ bids' = b.bids
           /\ asks' = b.asks
           /\ price_index' = b.price_index
           /\ order_index' = b.order_index
           /\ trade_counter' = b.trade_counter
           /\ book_sequence' = b.book_sequence
           /\ arrival' = b.arrival
  /\ UNCHANGED <<risk, market_data, crashed, processed_count, instances, feed, engine,
                 destructor, lfq, qvars>>

NextX ==
  \/ polled = 0 /\ processed_count < MaxCommandsBeforeUpdates /\ (Add \/ Cancel \/ Modify)
  \/ Poll /\ UNCHANGED poller

SpecX == Init /\ [][NextX]_vars

\* ------------------------------------------- the market data sequence numbers
\* SpecM follows the calls the consumer thread makes on the publisher port of
\* a book that has a MarketDataPublisher attached: publishBookUpdate for every
\* change of a level, publishTrade for every trade, publishMarketDataUpdate at
\* the end of every command.
InitM ==
  /\ BookConstructed(TRUE)
  /\ risk = "active"
  /\ QueuesInit([p \in Producers |-> <<>>])

\* everything but feed and book_sequence
NotPublished ==
  <<orders, levels, bids, asks, price_index, order_index, trade_counter,
    risk, market_data, arrival, lastCmd, lastTrades, crashed, processed_count,
    instances, qvars, polled, engine, poller, destructor, lfq>>

\* MarketDataPublisher::setDisabled
setDisabled(disabled) ==
  /\ feed.disabled # disabled
  /\ feed' = [feed EXCEPT !.disabled = disabled]
  /\ UNCHANGED <<book_sequence, NotPublished>>

\* OrderBook::publishBookUpdate with a publisher attached: the sequence number
\* is drawn from the static book_sequence and travels in the BookUpdate
PublishBookUpdate ==
  /\ feed.sequence_number + Len(feed.book_updates) < MaxMessages
  /\ market_data
  /\ book_sequence' = book_sequence + 1
  /\ feed' = [feed EXCEPT !.book_updates = Append(@, book_sequence + 1)]
  /\ UNCHANGED NotPublished

\* MarketDataPublisher::publishTrade: SequenceNumber seq = ++sequence_number_
PublishTrade ==
  /\ feed.sequence_number + Len(feed.book_updates) < MaxMessages
  /\ market_data
  /\ ~feed.disabled
  /\ feed' = [feed EXCEPT !.sequence_number = @ + 1]
  /\ UNCHANGED <<book_sequence, NotPublished>>

\* OrderBook::publishMarketDataUpdate: publishBestPrices, then publishDepth,
\* each with SequenceNumber seq = ++sequence_number_
PublishMarketDataUpdate ==
  /\ feed.sequence_number + Len(feed.book_updates) < MaxMessages
  /\ market_data
  /\ ~feed.disabled
  /\ feed' = [feed EXCEPT !.sequence_number = @ + 2,
                          !.best_prices = Append(@, feed.sequence_number + 1)]
  /\ UNCHANGED <<book_sequence, NotPublished>>

NextM ==
  \/ \E disabled \in BOOLEAN : setDisabled(disabled)
  \/ PublishBookUpdate
  \/ PublishTrade
  \/ PublishMarketDataUpdate

SpecM == InitM /\ [][NextM]_vars

\* ------------------------------------------- the threads around the queues
\* SpecQ follows the producer threads through addOrder / cancelOrder /
\* modifyOrder, the consumer thread through processLoop and one thread through
\* waitForCompletion, one access to shared memory per step.

\* the calls of the producers: the first makes three, the second one, and
\* every further producer none or one
ProgramSets ==
  {[p \in Producers |->
      IF p = 1 THEN <<OrderRequest("Add", 1, "Buy", 1, 1, 0, 0),
                      OrderRequest("Cancel", 1, "Buy", 0, 0, 0, 0),
                      OrderRequest("Add", 3, "Buy", 1, 1, 0, 0)>>
      ELSE IF p = 2 THEN <<OrderRequest("Add", 2, "Sell", 1, 1, 0, 0)>>
      ELSE extra] :
     extra \in {<<>>, <<OrderRequest("Cancel", 2, "Buy", 0, 0, 0, 0)>>}}

\* the book is built with a risk manager, as main does
InitQ ==
  /\ BookInit
  /\ risk = "active"
  /\ \E programs \in ProgramSets : QueuesInit(programs)

\* getOrderQueueIndex: the shard of the calling thread, bound at its first call
getOrderQueueIndex(p) ==
  IF producers[p].local_index = unbound
  THEN order_producer_rr_index % OrderQueueCount
  ELSE producers[p].local_index

\* what addOrder / cancelOrder / modifyOrder return, given what push returned
enqueueResult(pushed) == "success"

\* spsc_queue::push, first half: read the indices, give up when the ring is
\* full, else construct the element in the slot at write_index
Push(p) ==
  /\ ~crashed
  /\ producers[p].pc = "call"
  /\ producers[p].program # <<>>
  /\ LET index == getOrderQueueIndex(p)
         q == order_queues[index]
         full == next_index(q.write_index) = q.read_index
         req == [Head(producers[p].program) EXCEPT !.producer = p,
                                                     !.seq = producers[p].seq]
     IN  /\ order_producer_rr_index' =
               IF producers[p].local_index = unbound
               THEN order_producer_rr_index + 1 ELSE order_producer_rr_index
         /\ order_queues' =
               IF full THEN order_queues
               ELSE [order_queues EXCEPT ![index].buffer[q.write_index] = req]
         /\ producers' =
               [producers EXCEPT ![p].local_index = index,
                                 ![p].write_index = q.write_index,
                                 ![p].pushed = ~full,
                                 ![p].pc = IF full THEN "flag" ELSE "publish"]
  /\ UNCHANGED <<bookvars, order_data_available, consumer, waiter, applied_log, calls>>

\* spsc_queue::push, second half: write_index_.store(next)
Publish(p) ==
  /\ ~crashed
  /\ producers[p].pc = "publish"
  /\ order_queues' = [order_queues EXCEPT ![producers[p].local_index].write_index =
                                             next_index(producers[p].write_index)]
  /\ producers' = [producers EXCEPT ![p].pc = "flag"]
  /\ UNCHANGED <<bookvars, order_data_available, order_producer_rr_index, consumer,
                 waiter, applied_log, calls>>

\* order_data_available_.store(true)
SetFlag(p) ==
  /\ ~crashed
  /\ producers[p].pc = "flag"
  /\ order_data_available' = TRUE
  /\ producers' = [producers EXCEPT ![p].pc = "notify"]
  /\ UNCHANGED <<bookvars, order_queues, order_producer_rr_index, consumer, waiter,
                 applied_log, calls>>

\* queue_cv_.notify_one() and the return to the caller
Notify(p) ==
  /\ ~crashed
  /\ producers[p].pc = "notify"
  /\ consumer' = IF consumer.pc = "parked" THEN [consumer EXCEPT !.pc = "wait"] ELSE consumer
  /\ calls' = Append(calls, [producer |-> p, seq |-> producers[p].seq,
                             pushed |-> producers[p].pushed,
                             result |-> enqueueResult(producers[p].pushed)])
  /\ producers' = [producers EXCEPT ![p].pc = "call",
                                    ![p].program = Tail(@),
                                    ![p].seq = @ + 1]
  /\ UNCHANGED <<bookvars, order_queues, order_data_available, order_producer_rr_index,
                 waiter, applied_log>>

ProducerStep(p) == Push(p) \/ Publish(p) \/ SetFlag(p) \/ Notify(p)

\* processLoop: the predicate of queue_cv_.wait, evaluated under the mutex
ConsumerWait ==
  /\ ~crashed
  /\ consumer.pc = "wait"
  /\ consumer' = IF order_data_available
                 THEN [consumer EXCEPT !.pc = "scan", !.shard = 0, !.any_processed = FALSE]
                 ELSE [consumer EXCEPT !.pc = "block"]
  /\ UNCHANGED <<bookvars, order_queues, order_data_available, order_producer_rr_index,
                 producers, waiter, applied_log, calls>>

\* processLoop: the predicate was false, the thread blocks on the condition
\* variable (a wake-up that is not a notification is never owed to it)
ConsumerBlock ==
  /\ ~crashed
  /\ consumer.pc = "block"
  /\ consumer' = [consumer EXCEPT !.pc = "parked"]
  /\ UNCHANGED <<bookvars, order_queues, order_data_available, order_producer_rr_index,
                 producers, waiter, applied_log, calls>>

\* what pop copies out of the slot at read_index
slotRequest(q, garbage) ==
  IF q.buffer[q.read_index] = Unwritten THEN garbage ELSE q.buffer[q.read_index]

\* the for / while of processLoop after a pop that returned false
afterEmptyShard(c) ==
  IF c.shard < OrderQueueCount - 1 THEN [c EXCEPT !.shard = @ + 1]
  ELSE IF c.any_processed THEN [c EXCEPT !.shard = 0, !.any_processed = FALSE]
  ELSE [c EXCEPT !.pc = "reset"]

\* processLoop: qptr->pop(req) on the shard under the loop
ConsumerPop ==
  /\ ~crashed
  /\ consumer.pc = "scan"
  /\ IF queueEmpty(order_queues[consumer.shard])
     THEN /\ consumer' = afterEmptyShard(consumer)
          /\ UNCHANGED order_queues
     ELSE \E garbage \in GarbageRequests :
            /\ consumer' = [consumer EXCEPT
                              !.pc = "apply", !.any_processed = TRUE,
                              !.req = slotRequest(order_queues[consumer.shard], garbage)]
            /\ order_queues' = [order_queues EXCEPT ![consumer.shard].read_index =
                                                       next_index(@)]
  /\ UNCHANGED <<bookvars, order_data_available, order_producer_rr_index, producers,
                 waiter, applied_log, calls>>

\* processLoop: switch (req.type)
handleRequest(b, req) ==
  IF req.type = "Add"
  THEN processAddOrder(b, risk, req.id, req.side, req.price, req.quantity)
  ELSE IF req.type = "Cancel" THEN processCancelOrder(b, req.id)
  ELSE processModifyOrder(b, req.id, req.price, req.quantity)

\* processLoop: the popped request is handled
ConsumerApply ==
  /\ ~crashed
  /\ consumer.pc = "apply"
  /\ Process(handleRequest(Book, consumer.req), consumer.req.type, consumer.req.id,
             consumer.req.side, consumer.req.price, consumer.req.quantity)
  /\ applied_log' = Append(applied_log, consumer.req)
  /\ consumer' = [consumer EXCEPT !.pc = "scan"]
  /\ UNCHANGED <<order_queues, order_data_available, order_producer_rr_index, producers,
                 waiter, calls>>

\* processLoop: order_data_available_.store(false) after the drain
ConsumerReset ==
  /\ ~crashed
  /\ consumer.pc = "reset"
  /\ order_data_available' = FALSE
  /\ consumer' = [consumer EXCEPT !.pc = "wait"]
  /\ UNCHANGED <<bookvars, order_queues, order_producer_rr_index, producers, waiter,
                 applied_log, calls>>

ConsumerStep == ConsumerWait \/ ConsumerBlock \/ ConsumerPop \/ ConsumerApply \/ ConsumerReset

\* the producers have made all their calls
ProducersStopped == \A p \in Producers : producers[p].program = <<>>

\* waitForCompletion, called once the producers have stopped: the loop ends
\* when every shard is seen empty
WaitCheck ==
  /\ ~crashed
  /\ waiter = "idle"
  /\ ProducersStopped
  /\ \A s \in Shards : queueEmpty(order_queues[s])
  /\ waiter' = "sleep"
  /\ UNCHANGED <<bookvars, order_queues, order_data_available, order_producer_rr_index,
                 producers, consumer, applied_log, calls>>

\* waitForCompletion: the last sleep is over and the call returns
WaitReturn ==
  /\ ~crashed
  /\ waiter = "sleep"
  /\ waiter' = "returned"
  /\ UNCHANGED <<bookvars, order_queues, order_data_available, order_producer_rr_index,
                 producers, consumer, applied_log, calls>>

NextQ ==
  \/ \E p \in Producers : ProducerStep(p)
  \/ ConsumerStep
  \/ WaitCheck
  \/ WaitReturn

SpecQ == InitQ /\ [][NextQ]_vars

\* two producers with one call each, the least that lets a push meet the end
\* of a drain
LivePrograms ==
  [p \in Producers |->
     IF p = 1 THEN <<OrderRequest("Add", 1, "Buy", 1, 1, 0, 0)>>
     ELSE IF p = 2 THEN <<OrderRequest("Add", 2, "Sell", 1, 1, 0, 0)>>
     ELSE <<>>]

InitQLive ==
  /\ BookInit
  /\ risk = "active"
  /\ QueuesInit(LivePrograms)

\* the handler of a popped request returns to the loop: the step of
\* ConsumerApply as the consumer sees it
ApplyReturns ==
  /\ ~crashed
  /\ consumer.pc = "apply"
  /\ consumer' = [consumer EXCEPT !.pc = "scan"]

\* Every thread that can run does run: the scheduler starves neither the
\* consumer nor a producer.
SpecQFair ==
  /\ InitQLive
  /\ [][NextQ]_vars
  /\ WF_vars(ConsumerWait \/ ConsumerBlock \/ ConsumerPop \/ ConsumerReset)
  /\ WF_consumer(ApplyReturns)
  /\ \A p \in Producers : WF_vars(ProducerStep(p))

\* --------------------------------------------- the thread that calls poll
\* SpecP adds a thread that calls poll to the producers and the consumer of
\* SpecQ.  processLoop never calls poll: whoever calls it is another thread,
\* and poll takes no lock.  While the consumer is in a handler and the thread
\* in the body of poll, the two access the ladders and the indexes together:
\* a data race, after which the process may also come to an end.  The threads
\* are followed until poll has applied an update (see SpecX).
PollThread ==
  \/ /\ poller = "idle"
     /\ polled < MaxUpdates
     /\ poller' = "polling"
     /\ UNCHANGED <<orders, levels, bids, asks, price_index, order_index, trade_counter,
                    book_sequence, risk, market_data, arrival, lastCmd, lastTrades, crashed,
                    processed_count, instances, feed, polled, engine, destructor, lfq, qvars>>
  \/ /\ poller = "polling"
     /\ poller' = "idle"
     /\ Poll
  \/ /\ poller = "polling"
     /\ consumer.pc = "apply"
     /\ ~crashed
     /\ crashed' = TRUE
     /\ UNCHANGED <<orders, levels, bids, asks, price_index, order_index, trade_counter,
                    book_sequence, risk, market_data, arrival, lastCmd, lastTrades,
                    processed_count, instances, extvars, qvars>>

SpecP == InitQLive /\ [][(polled = 0 /\ NextQ) \/ PollThread]_vars

\* ------------------------------------------ the thread that destroys the book
\* SpecD adds the thread that runs ~OrderBook to the producers and the
\* consumer of SpecQ.  The book is destroyed once the producers have returned
\* from their calls.  The second producer sends a sell of one unit or of the
\* greatest quantity, to a book with or without a risk manager.
InitD ==
  /\ BookInit
  /\ risk \in {"none", "active"}
  /\ \E quantity \in {1, QuantityMax} :
       QueuesInit([p \in Producers |->
          IF p = 1 THEN <<OrderRequest("Add", 1, "Buy", 1, 1, 0, 0)>>
          ELSE IF p = 2 THEN <<OrderRequest("Add", 2, "Sell", 1, quantity, 0, 0)>>
          ELSE <<>>])

\* ~OrderBook: running_ = false under queue_mutex_ (which the consumer holds
\* from the test of the wait predicate until it blocks), then notify_one,
\* then join, which returns once the consumer thread has ended
Destructor ==
  /\ \/ /\ destructor.pc = "alive"
        /\ ProducersStopped
        /\ consumer.pc # "block"
        /\ destructor' = [running |-> FALSE, pc |-> "notify"]
        /\ UNCHANGED consumer
     \/ /\ destructor.pc = "notify"
        /\ destructor' = [destructor EXCEPT !.pc = "join"]
        /\ consumer' = IF consumer.pc = "parked" THEN [consumer EXCEPT !.pc = "wait"]
                       ELSE consumer
     \/ /\ destructor.pc = "join"
        /\ consumer.pc = "exited"
        /\ destructor' = [destructor EXCEPT !.pc = "destroyed"]
        /\ UNCHANGED consumer
  /\ UNCHANGED <<orders, levels, bids, asks, price_index, order_index, trade_counter,
                 book_sequence, risk, market_data, arrival, lastCmd, lastTrades, crashed,
                 processed_count, instances, feed, polled, engine, poller, lfq,
                 order_queues, order_data_available, order_producer_rr_index,
                 producers, waiter, applied_log, calls>>

\* processLoop with running_ false: `while (running_)` ends the loop, and so
\* does the return after the wait when no data is flagged; a consumer woken
\* inside the wait with data flagged drains first (ConsumerWait)
ConsumerStops ==
  /\ ~crashed
  /\ consumer.pc = "wait"
  /\ ~destructor.running
  /\ consumer' = [consumer EXCEPT !.pc = "exited"]
  /\ UNCHANGED <<bookvars, order_queues, order_data_available, order_producer_rr_index,
                 producers, waiter, applied_log, calls>>

\* Every thread that can run does run, the one in the destructor included.
SpecD ==
  /\ InitD
  /\ [][\/ \E p \in Producers : ProducerStep(p)
        \/ ((destructor.running \/ order_data_available) /\ ConsumerWait)
        \/ ConsumerBlock \/ ConsumerPop \/ ConsumerApply \/ ConsumerReset
        \/ ConsumerStops
        \/ Destructor]_vars
  /\ WF_vars((destructor.running \/ order_data_available) /\ ConsumerWait)
  /\ WF_vars(ConsumerBlock \/ ConsumerPop \/ ConsumerReset \/ ConsumerStops)
  /\ WF_consumer(ApplyReturns)
  /\ \A p \in Producers : WF_vars(ProducerStep(p))
  /\ WF_vars(Destructor)

\* ------------------------------------------------------ the LockFreeQueue
\* SpecL follows one producer thread through push and one consumer thread
\* through pop, one access to the queue per step.  The producer pushes the
\* items 1, 2, ... in turn, a refused item is not offered again.

\* push: the ring is full
isFullNever(l) == FALSE

isFull(l) == (l.current_tail + 1) % Capacity = l.head

push ==
  /\ \/ /\ lfq.push_pc = "idle"
        /\ lfq.item < MaxItems
        /\ lfq' = [lfq EXCEPT !.push_pc = "check", !.item = @ + 1,
                              !.current_tail = lfq.tail]
     \/ /\ lfq.push_pc = "check"
        /\ lfq' = [lfq EXCEPT
                     !.push_pc = IF isFull(lfq) THEN "idle" ELSE "write",
                     !.last_push = [returned |-> IF isFull(lfq) THEN "false" ELSE "true",
                                    stored |-> Len(lfq.pushed) - Len(lfq.popped)]]
     \/ /\ lfq.push_pc = "write"
        /\ lfq' = [lfq EXCEPT !.push_pc = "store", !.buffer[lfq.current_tail] = lfq.item]
     \/ /\ lfq.push_pc = "store"
        /\ lfq' = [lfq EXCEPT !.push_pc = "idle",
                              !.tail = (lfq.current_tail + 1) % Capacity,
                              !.pushed = Append(@, lfq.item)]
  /\ UNCHANGED <<orders, levels, bids, asks, price_index, order_index, trade_counter,
                 book_sequence, risk, market_data, arrival, lastCmd, lastTrades, crashed,
                 processed_count, instances, feed, polled, engine, poller, destructor,
                 qvars>>

pop ==
  /\ \/ /\ lfq.pop_pc = "idle"
        /\ lfq' = [lfq EXCEPT !.pop_pc = "check", !.current_head = lfq.head]
     \/ /\ lfq.pop_pc = "check"
        /\ lfq' = [lfq EXCEPT
                     !.pop_pc = IF lfq.current_head = lfq.tail THEN "idle" ELSE "read",
                     !.last_pop = [returned |-> IF lfq.current_head = lfq.tail
                                                THEN "false" ELSE "true",
                                   stored |-> Len(lfq.pushed) - Len(lfq.popped)]]
     \/ /\ lfq.pop_pc = "read"
        /\ lfq' = [lfq EXCEPT !.pop_pc = "store", !.out = lfq.buffer[lfq.current_head]]
     \/ /\ lfq.pop_pc = "store"
        /\ lfq' = [lfq EXCEPT !.pop_pc = "idle",
                              !.head = (lfq.current_head + 1) % Capacity,
                              !.popped = Append(@, lfq.out)]
  /\ UNCHANGED <<orders, levels, bids, asks, price_index, order_index, trade_counter,
                 book_sequence, risk, market_data, arrival, lastCmd, lastTrades, crashed,
                 processed_count, instances, feed, polled, engine, poller, destructor,
                 qvars>>

SpecL == Init /\ [][push \/ pop]_vars

\* ------------------------------------------------------- model soundness
\* The representation is adequate: an id names at most one live Order, every
\* handle in use names a live PriceLevel, and each level's list holds live
\* orders without repetition.
ModelSound ==
  /\ DOMAIN orders = DOMAIN order_index
  /\ \A id \in DOMAIN order_index :
       /\ order_index[id].order = id
       /\ order_index[id].price_level \in DOMAIN levels
  /\ Range(bids) \cup Range(asks) = DOMAIN levels
  /\ \A p \in DOMAIN price_index : price_index[p] \in DOMAIN levels
  /\ \A h \in DOMAIN levels :
       /\ Range(levels[h].q) \subseteq DOMAIN orders
       /\ Cardinality(Range(levels[h].q)) = Len(levels[h].q)

\* ------------------------------------------------------------------ claims
\* Sum of the remaining quantities of the orders linked in a level
RECURSIVE SumRemaining(_)
SumRemaining(q) ==
  IF q = <<>> THEN 0 ELSE remainingQuantity(orders[Head(q)]) + SumRemaining(Tail(q))

\* the levels an order is linked in
LevelsOf(id) == {h \in DOMAIN levels : id \in Range(levels[h].q)}

\* the orders linked in some level of a ladder / linked anywhere
Linked == UNION {Range(levels[h].q) : h \in DOMAIN levels}

\* the prices at which an order of this side is resting
RestingPrices(side) ==
  {orders[id].price : id \in {i \in DOMAIN order_index : orders[i].side = side}}

\* C1: after every applied command, when both sides of the book hold a resting
\* order (so bestBid() and bestAsk() both return a price), best bid < best ask:
\* the book is never crossed.
C1_NeverCrossed ==
  (/\ RestingPrices("Buy") # {} /\ RestingPrices("Sell") # {}
   /\ bestBid # none /\ bestAsk # none)
    => bestBid < bestAsk

\* C5: after every command, each price level's cached total_quantity equals the
\* sum of the remaining quantities of the orders linked in it (as 64-bit values).
C5_TotalQuantity ==
  \A h \in DOMAIN levels : levels[h].total_quantity = SumRemaining(levels[h].q)

\* C6: each level's order_count is the number of orders linked in it, and a
\* level with order_count = 0 is in neither ladder and not in the price index.
C6_CountAndNoEmptyLevel ==
  \A h \in DOMAIN levels :
    /\ levels[h].order_count = Len(levels[h].q)
    /\ levels[h].order_count = 0 =>
         /\ h \notin Range(bids) \cup Range(asks)
         /\ \A p \in DOMAIN price_index : price_index[p] # h

\* the limit of an order of this side reaches a level priced p
Crosses(side, limit, p) == IF side = "Buy" THEN limit >= p ELSE limit <= p

\* for a taker of this side, an opposite level priced p is strictly better than one priced r
Better(side, p, r) == IF side = "Buy" THEN p < r ELSE p > r

\* C2: time priority.  Every trade's maker is the earliest-arrived order still
\* linked in its level, and when one command fills two different makers of a
\* level, the one filled first was filled completely.
C2_TimePriority ==
  \A i \in 1..Len(lastTrades) :
    /\ lastTrades[i].maker_rank = 1
    /\ \A j \in (i + 1)..Len(lastTrades) :
         (lastTrades[j].level = lastTrades[i].level /\ lastTrades[j].maker # lastTrades[i].maker)
           => lastTrades[i].quantity = lastTrades[i].maker_remaining

\* C2 witness: one incoming order filled an earlier maker completely and then a
\* later maker of the same level partially.
C2_Witness ==
  /\ ~crashed
  /\ Len(lastTrades) = 2
  /\ lastTrades[1].level = lastTrades[2].level
  /\ lastTrades[1].maker # lastTrades[2].maker
  /\ lastTrades[1].taker # lastTrades[1].maker
  /\ lastTrades[1].quantity = lastTrades[1].maker_remaining
  /\ ULt(lastTrades[2].quantity, lastTrades[2].maker_remaining)

\* C3: price priority.  Every trade is at a price the taker's limit crosses and
\* at the best price then open on the opposite ladder; no maker is hit twice by
\* one command; and an incoming order that is left resting with quantity
\* remaining leaves no order on the opposite ladder at a price its limit crosses.
C3_PricePriority ==
  /\ \A i \in 1..Len(lastTrades) :
       /\ Crosses(lastTrades[i].taker_side, lastTrades[i].taker_limit, lastTrades[i].price)
       /\ \A p \in lastTrades[i].open_prices :
            ~Better(lastTrades[i].taker_side, p, lastTrades[i].price)
       /\ \A j \in 1..Len(lastTrades) : j # i => lastTrades[j].maker # lastTrades[i].maker
  /\ (/\ lastCmd.type = "Add" /\ lastCmd.applied /\ ~crashed
      /\ lastCmd.id \in DOMAIN order_index
      /\ remainingQuantity(orders[lastCmd.id]) # 0)
       => \A h \in Range(IF lastCmd.side = "Buy" THEN asks ELSE bids) :
            levels[h].q # <<>> => ~Crosses(lastCmd.side, lastCmd.price, levels[h].price)

\* C4: every trade is priced at the maker's resting price, and its quantity is
\* at most the taker's and at most the maker's remaining quantity before the match.
C4_TradePriceAndQuantity ==
  \A i \in 1..Len(lastTrades) :
    /\ lastTrades[i].price = lastTrades[i].maker_price
    /\ ULe(lastTrades[i].quantity, lastTrades[i].taker_remaining)
    /\ ULe(lastTrades[i].quantity, lastTrades[i].maker_remaining)

\* C4 witness: a trade between two different orders at a price better than the
\* taker's limit, for less than the taker wanted.
C4_Witness ==
  /\ ~crashed
  /\ \E i \in 1..Len(lastTrades) :
       /\ lastTrades[i].taker # lastTrades[i].maker
       /\ lastTrades[i].taker_limit # lastTrades[i].maker_price
       /\ ULt(lastTrades[i].quantity, lastTrades[i].taker_remaining)
       /\ lastTrades[i].quantity = lastTrades[i].maker_remaining

\* C7: every order of the order index is linked in exactly one price level, and
\* that level is on the ladder of the side recorded in its index entry.
C7_LinkedOnOwnSide ==
  \A id \in DOMAIN order_index :
    /\ Cardinality(LevelsOf(id)) = 1
    /\ LevelsOf(id) \subseteq Range(IF order_index[id].side = "Buy" THEN bids ELSE asks)

\* C8: for every order, 0 <= filled_quantity <= quantity, and its status is
\* Filled exactly when filled_quantity = quantity.
C8_FilledWithinQuantity ==
  \A id \in DOMAIN orders :
    /\ ULe(0, orders[id].filled_quantity)
    /\ ULe(orders[id].filled_quantity, orders[id].quantity)
    /\ (orders[id].status = "Filled") <=> (orders[id].filled_quantity = orders[id].quantity)

\* C9: after a command returns the order index holds exactly the live resting
\* orders: the indexed orders are the linked ones, none of them has remaining
\* quantity 0, and an order the command cancelled or filled completely is in
\* neither the index nor a level.
C9_IndexIsLiveOrders ==
  ~crashed =>
    /\ DOMAIN order_index = Linked
    /\ \A id \in DOMAIN order_index : remainingQuantity(orders[id]) # 0
    /\ (lastCmd.type = "Cancel" /\ lastCmd.applied)
         => lastCmd.id \notin (DOMAIN order_index) \cup Linked
    /\ \A i \in 1..Len(lastTrades) :
         /\ lastTrades[i].quantity = lastTrades[i].maker_remaining
              => lastTrades[i].maker \notin (DOMAIN order_index) \cup Linked
         /\ lastTrades[i].quantity = lastTrades[i].taker_remaining
              => lastTrades[i].taker \notin (DOMAIN order_index) \cup Linked

\* C10: bestBid() is the highest price at which a buy order rests and bestAsk()
\* the lowest price at which a sell order rests; each is none exactly when no
\* order rests on that side.
C10_BestPrices ==
  /\ IF RestingPrices("Buy") = {} THEN bestBid = none
     ELSE bestBid \in RestingPrices("Buy") /\ \A p \in RestingPrices("Buy") : p <= bestBid
  /\ IF RestingPrices("Sell") = {} THEN bestAsk = none
     ELSE bestAsk \in RestingPrices("Sell") /\ \A p \in RestingPrices("Sell") : p >= bestAsk

\* C11: after every command the bid ladder is strictly ascending in price and
\* the ask ladder strictly descending (so no two levels of a side share a
\* price, and the best price of each side is at the back).
C11_LaddersStrictlyOrdered ==
  /\ \A i \in 1..(Len(bids) - 1) : levels[bids[i]].price < levels[bids[i + 1]].price
  /\ \A i \in 1..(Len(asks) - 1) : levels[asks[i]].price > levels[asks[i + 1]].price
\* C12: under a fair scheduler a shard that holds a command is eventually
\* drained by the consumer, with no further push needed to wake it (the only
\* other way out is the abort of the process).
C12_NoLostWakeup ==
  \A s \in Shards :
    (~queueEmpty(order_queues[s])) ~> (queueEmpty(order_queues[s]) \/ crashed)

\* C13: the commands of one producer are applied in the order in which that
\* producer submitted them, whatever the interleaving of the threads: in the
\* sequence of applied commands, those of one producer carry increasing
\* submission numbers.
C13_PerProducerOrder ==
  \A i, j \in 1..Len(applied_log) :
    (i < j /\ applied_log[i].producer # 0
           /\ applied_log[i].producer = applied_log[j].producer)
      => applied_log[i].seq < applied_log[j].seq

\* C14: a call whose push found the shard full reports QueueFull to its
\* caller, and a call that reports success has put its command into the shard.
C14_QueueFullReported ==
  \A i \in 1..Len(calls) :
    /\ ~calls[i].pushed => calls[i].result = "QueueFull"
    /\ calls[i].result = "success" => calls[i].pushed

\* C15: once the producers have stopped and waitForCompletion has returned,
\* no shard holds a command and the consumer is not in the middle of
\* applying one (unless the process has aborted).
C15_WaitForCompletionQuiescent ==
  (waiter = "returned" /\ ~crashed) =>
    /\ \A s \in Shards : queueEmpty(order_queues[s])
    /\ consumer.pc # "apply"

\* C16: a resting Buy #1, then a crossing Sell #2 and a Cancel of #1 that
\* reach the consumer from two shards in either order: either the two orders
\* traded once and both are gone, or #1 was cancelled, nothing traded and #2
\* rests alone; the command the consumer applies first decides which.
CancelFillRace ==
  /\ Len(applied_log) = 3
  /\ applied_log[1].type = "Add" /\ applied_log[1].id = 1
  /\ {<<applied_log[2].type, applied_log[2].id>>, <<applied_log[3].type, applied_log[3].id>>}
       = {<<"Add", 2>>, <<"Cancel", 1>>}
  /\ consumer.pc # "apply"

TradedBothGone ==
  /\ trade_counter = 2
  /\ DOMAIN order_index = {}
  /\ Linked = {}

CancelledSellRests ==
  /\ trade_counter = 1
  /\ DOMAIN order_index = {2}
  /\ Linked = {2}
  /\ remainingQuantity(orders[2]) = 1
  /\ bestAsk = 1
  /\ bestBid = none

C16_CancelFillRace ==
  (CancelFillRace /\ ~crashed) =>
    /\ applied_log[2].type = "Add" => TradedBothGone
    /\ applied_log[2].type = "Cancel" => CancelledSellRests
    /\ ~(TradedBothGone /\ CancelledSellRests)

C16_Witness ==
  /\ CancelFillRace
  /\ ~crashed
  /\ applied_log[2].type = "Add"
  /\ TradedBothGone

\* what getOrderCount, getBidLevelCount, getAskLevelCount and getBestPrices
\* return on a book, and the size of the price index
Observables(b) ==
  [order_count |-> Cardinality(DOMAIN b.order_index),
   bid_levels |-> Len(b.bids),
   ask_levels |-> Len(b.asks),
   bid |-> IF b.bids = <<>> THEN none ELSE b.levels[b.bids[Len(b.bids)]].price,
   bid_size |-> IF b.bids = <<>> THEN 0 ELSE b.levels[b.bids[Len(b.bids)]].total_quantity,
   ask |-> IF b.asks = <<>> THEN none ELSE b.levels[b.asks[Len(b.asks)]].price,
   ask_size |-> IF b.asks = <<>> THEN 0 ELSE b.levels[b.asks[Len(b.asks)]].total_quantity,
   index_size |-> Cardinality(DOMAIN b.price_index)]

\* the Add left its order resting and traded nothing
RestedWithoutTrading(r, id) ==
  /\ r.applied
  /\ ~r.book.ub
  /\ r.book.trades = <<>>
  /\ id \in DOMAIN r.book.order_index

\* an Add with a fresh id followed by the Cancel of that id
AddThenCancel(id, side, price, quantity) ==
  processCancelOrder(processAddOrder(Book, risk, id, side, price, quantity).book, id).book

\* C17: from every reachable book, an Add with a fresh id that rests without
\* trading followed by a Cancel of the same id gives back the order count, the
\* bid and ask level counts, the best bid and ask with their sizes and the
\* index size the book had before the Add.
C17_AddCancelRoundTrip ==
  ~crashed =>
    \A id \in OrderIds \ (DOMAIN order_index \cup DOMAIN orders \cup Linked),
       side \in Sides, price \in PriceSet, quantity \in QtySet :
      RestedWithoutTrading(processAddOrder(Book, risk, id, side, price, quantity), id)
        => Observables(AddThenCancel(id, side, price, quantity)) = Observables(Book)

\* C18: a Cancel or a Modify whose id is not in the order index leaves the
\* ladders, the levels, the price index and the order index as they were and
\* emits neither a trade nor a book update: the handler returns the book it was
\* given.
C18_UnknownIdNoOp ==
  ~crashed =>
    \A id \in OrderIds \ DOMAIN order_index :
      /\ processCancelOrder(Book, id) = [book |-> Book, applied |-> FALSE]
      /\ \A new_price \in PriceSet \cup {0}, new_quantity \in QtySet :
           processModifyOrder(Book, id, new_price, new_quantity)
             = [book |-> Book, applied |-> FALSE]

\* C18 witness: a Cancel or Modify was turned away by a book that holds orders
C18_Witness ==
  /\ ~crashed
  /\ lastCmd.type \in {"Cancel", "Modify"}
  /\ ~lastCmd.applied
  /\ DOMAIN order_index # {}
  /\ OrderIds \ DOMAIN order_index # {}

\* C19: an Add whose id is already in the order index is dropped: the order
\* resting under that id, the levels, both ladders and the index stay as they
\* were and no trade is emitted: the handler returns the book it was given.
C19_DuplicateIdDropped ==
  ~crashed =>
    \A id \in DOMAIN order_index, side \in Sides, price \in PriceSet, quantity \in QtySet :
      processAddOrder(Book, risk, id, side, price, quantity)
        = [book |-> Book, applied |-> FALSE]

\* C19 witness: with no risk manager to reject it, an Add was turned away
C19_Witness ==
  /\ ~crashed
  /\ risk = "none"
  /\ lastCmd.type = "Add"
  /\ ~lastCmd.applied
  /\ DOMAIN order_index # {}

\* C20: an Add that the attached, not bypassed risk manager rejects never
\* enters the book: ladders, levels, price index and order index stay as they
\* were and neither a trade nor a book update is emitted.
C20_RiskRejectionNoOp ==
  (~crashed /\ risk = "active") =>
    \A id \in OrderIds, side \in Sides, price \in PriceSet, quantity \in QtySet :
      ~validateOrder(quantity, price, side)
        => processAddOrder(Book, risk, id, side, price, quantity)
             = [book |-> Book, applied |-> FALSE]

\* C20 witness: the risk manager rejected an Add on a book that has traded
\* and holds no order (so that no id is a duplicate)
C20_Witness ==
  /\ ~crashed
  /\ risk = "active"
  /\ lastCmd.type = "Add"
  /\ ~lastCmd.applied
  /\ DOMAIN order_index = {}
  /\ trade_counter > 1

\* the execution reports processAddOrder hands to the publisher port: where it
\* turns an order away it writes to the log and returns, and the port has no
\* call that takes an execution report
rejectionReports(b, riskMode, id, side, price, quantity) == <<>>

\* C21: every Add that is turned away (by the risk manager or for a duplicate
\* id) produces an execution report to the publisher that carries the order id
\* and the status Rejected.
C21_RejectionReported ==
  ~crashed =>
    \A id \in OrderIds, side \in Sides, price \in PriceSet, quantity \in QtySet :
      ~processAddOrder(Book, risk, id, side, price, quantity).applied
        => \E i \in DOMAIN rejectionReports(Book, risk, id, side, price, quantity) :
             /\ rejectionReports(Book, risk, id, side, price, quantity)[i].order_id = id
             /\ rejectionReports(Book, risk, id, side, price, quantity)[i].status = "Rejected"

\* C22: an Add of quantity zero or of a price that is not positive never
\* enters the book, with or without a risk manager: an Add that was applied
\* had a positive quantity and a positive price, and the order it left resting
\* has quantity remaining.
C22_MalformedAddRejected ==
  (~crashed /\ lastCmd.type = "Add" /\ lastCmd.applied) =>
    /\ lastCmd.quantity # 0
    /\ lastCmd.price > 0
    /\ lastCmd.id \in Linked => remainingQuantity(orders[lastCmd.id]) # 0

\* processLoop, case Add: the Order is built from the request's id, side,
\* order type, price and quantity and is given the request's time in force;
\* processAddOrder reads neither the order type nor the time in force
addRequest(b, riskMode, id, side, order_type, tif, price, quantity) ==
  processAddOrder(b, riskMode, id, side, price, quantity)

OrderTypes == {"Market", "Limit"}

TimesInForce == {"GTC", "IOC", "FOK"}

\* no order of the other side rests at a price the limit crosses
NoLiquidityFor(side, price) ==
  \A i \in DOMAIN order_index :
    orders[i].side = side \/ ~Crosses(side, price, orders[i].price)

\* the order is in the index or linked in a level of the book
Resting(b, id) ==
  id \in DOMAIN b.order_index \/ \E h \in DOMAIN b.levels : id \in Range(b.levels[h].q)

\* C23: a FOK Add that cannot be filled completely is rejected with no state
\* change; here the plainest such case, an order of positive quantity when no
\* order of the other side rests at a price its limit crosses: the book after
\* the Add is the book before it.
C23_FokRejectedUnchanged ==
  ~crashed =>
    \A id \in OrderIds \ DOMAIN order_index, side \in Sides, price \in PriceSet,
       quantity \in QtySet \ {0} :
      NoLiquidityFor(side, price)
        => addRequest(Book, risk, id, side, "Limit", "FOK", price, quantity).book = Book

\* C24: after an Add with time in force IOC the order does not rest: its id is
\* neither in the order index nor linked in a level.
C24_IocNeverRests ==
  ~crashed =>
    \A id \in OrderIds \ DOMAIN order_index, side \in Sides, price \in PriceSet,
       quantity \in QtySet :
      ~Resting(addRequest(Book, risk, id, side, "Limit", "IOC", price, quantity).book, id)

\* C25: a Market order never rests: after its Add the order is linked in no
\* level and has no index entry, whatever the other side of the book holds.
C25_MarketNeverRests ==
  ~crashed =>
    \A id \in OrderIds \ DOMAIN order_index, side \in Sides, price \in PriceSet,
       quantity \in QtySet, tif \in TimesInForce :
      ~Resting(addRequest(Book, risk, id, side, "Market", tif, price, quantity).book, id)

\* the order is the last of the queue of a level of its side's ladder priced
\* price, and is linked in no other level
AtTailOfOwnSide(b, id, side, price) ==
  \E h \in Range(Ladder(b, side)) :
    /\ b.levels[h].price = price
    /\ b.levels[h].q # <<>>
    /\ b.levels[h].q[Len(b.levels[h].q)] = id
    /\ \A g \in DOMAIN b.levels \ {h} : id \notin Range(b.levels[g].q)

\* the level is in neither ladder, or still holds an order
GoneOrInUse(b, h) ==
  \/ h \notin Range(b.bids) \cup Range(b.asks)
  \/ h \in DOMAIN b.levels /\ b.levels[h].q # <<>>

\* C26: a Modify that changes the price of a resting order (quantity left as
\* it is) puts the order at the tail of the level at the new price in the
\* ladder of its own side, and the level it left is removed from the ladder if
\* it became empty.
C26_RepriceToTail ==
  ~crashed =>
    \A id \in DOMAIN order_index, new_price \in PriceSet :
      (new_price # orders[id].price
         /\ ~processModifyOrder(Book, id, new_price, 0).book.ub)
        => /\ AtTailOfOwnSide(processModifyOrder(Book, id, new_price, 0).book, id,
                              orders[id].side, new_price)
           /\ GoneOrInUse(processModifyOrder(Book, id, new_price, 0).book,
                          order_index[id].price_level)

\* the order is the last of the queue of the level its index entry names
AtTailOfItsLevel(b, id) ==
  /\ id \in DOMAIN b.order_index
  /\ b.levels[b.order_index[id].price_level].q # <<>>
  /\ b.levels[b.order_index[id].price_level].q[Len(b.levels[b.order_index[id].price_level].q)] = id

\* C27: a Modify that increases the quantity of a resting order and leaves its
\* price loses time priority: afterwards the order is the last of its level's
\* queue, behind the orders that were queued after it.
C27_IncreaseLosesPriority ==
  ~crashed =>
    \A id \in DOMAIN order_index, new_quantity \in QtySet :
      (ULt(orders[id].quantity, new_quantity)
         /\ ~processModifyOrder(Book, id, 0, new_quantity).book.ub)
        => AtTailOfItsLevel(processModifyOrder(Book, id, 0, new_quantity).book, id)

\* C28: a Modify whose new quantity is the quantity the order has already
\* filled leaves the order with nothing remaining: the order is Filled and is
\* gone from its level and from the order index when the command returns.
C28_ModifyToFilledRemoves ==
  ~crashed =>
    \A id \in DOMAIN order_index :
      (orders[id].filled_quantity # 0
         /\ ~processModifyOrder(Book, id, 0, orders[id].filled_quantity).book.ub)
        => ~Resting(processModifyOrder(Book, id, 0, orders[id].filled_quantity).book, id)

\* C29: a Modify that names the order's current price and its current
\* quantity changes nothing in the book: the order (price, quantity, filled
\* quantity), the aggregates and the queue of its level, both ladders and the
\* two indexes are as before, and no trade is made.
C29_SameValuesNoOp ==
  ~crashed =>
    \A id \in DOMAIN order_index :
      processModifyOrder(Book, id, orders[id].price, orders[id].quantity).book = Book

\* C29 witness: a Modify was applied to a partially filled order that does
\* not rest alone in its level, and carried the price and quantity the order has
C29_Witness ==
  /\ ~crashed
  /\ lastCmd.type = "Modify"
  /\ lastCmd.applied
  /\ lastCmd.id \in DOMAIN order_index
  /\ lastCmd.price = orders[lastCmd.id].price
  /\ lastCmd.quantity = orders[lastCmd.id].quantity
  /\ orders[lastCmd.id].filled_quantity # 0
  /\ Len(levels[order_index[lastCmd.id].price_level].q) > 1

\* C30: the trades an order book emits carry ids that go up by exactly one
\* from each trade to the next, and no id is used twice, by the same book or
\* by another OrderBook instance of the process.
C30_TradeIdsDense ==
  /\ \A k \in Books : \A i \in 1..(Len(instances[k].ids) - 1) :
        instances[k].ids[i + 1] = instances[k].ids[i] + 1
  /\ \A k, l \in Books : \A i \in DOMAIN instances[k].ids, j \in DOMAIN instances[l].ids :
        instances[k].ids[i] = instances[l].ids[j] => (k = l /\ i = j)

\* C31: the sequence numbers of successive book updates go up by exactly one,
\* and so do those of successive best-price snapshots: neither stream has a
\* gap or a duplicate.
C31_SequencesDense ==
  /\ \A i \in 1..(Len(feed.book_updates) - 1) :
        feed.book_updates[i + 1] = feed.book_updates[i] + 1
  /\ \A i \in 1..(Len(feed.best_prices) - 1) :
        feed.best_prices[i + 1] = feed.best_prices[i] + 1

\* C32: applying an external market update (the clear of a snapshot, or an
\* Add / Modify / Remove of a level) emits no trade, draws no trade id, and
\* leaves the filled quantity of every order that is still there as it was.
C32_ExternalDataNeverTrades ==
  ~crashed => \A update \in MarketUpdates :
    LET b == pollUpdate(Book, update)
    IN  /\ b.trades = <<>>
        /\ b.trade_counter = trade_counter
        /\ \A id \in DOMAIN b.orders :
              id \in DOMAIN orders /\ b.orders[id].filled_quantity = orders[id].filled_quantity

\* an update has been applied to a level that holds a partly filled order
C32_Witness ==
  /\ lastCmd.type = "MarketUpdate"
  /\ lastTrades = <<>>
  /\ \E id \in Linked : /\ orders[id].filled_quantity # 0
                         /\ orders[id].price = lastCmd.price
                         /\ remainingQuantity(orders[id]) # 0

\* C33: MatchingEngine::matchOrder fills the incoming order for the smaller of
\* its quantity and the total remaining quantity of the orders resting at the
\* levels whose price crosses its limit; fully_filled says whether that is the
\* whole order, and remaining_order is there exactly when it is not.
C33_EngineFillsAvailable ==
  engine.pc = "matched" =>
    LET crosses(p) == IF engine.side = "Buy" THEN engine.price >= p ELSE p >= engine.price
        inLevel(q) == IF q = <<>> THEN 0 ELSE IF Len(q) = 1 THEN q[1] ELSE q[1] + q[2]
        resting[p \in 0..MaxPrice] ==
          IF p = 0 THEN 0
          ELSE resting[p - 1] + (IF crosses(p) THEN inLevel(engine.levels[p]) ELSE 0)
    IN  /\ engine.result.total_filled_quantity
             = IF resting[MaxPrice] < engine.quantity THEN resting[MaxPrice]
               ELSE engine.quantity
        /\ engine.result.fully_filled
             <=> engine.result.total_filled_quantity = engine.quantity
        /\ (engine.result.remaining_order # none) <=> ~engine.result.fully_filled

\* C34: no two producer threads are bound to the same shard, so no shard is
\* pushed to by two threads, and what a thread has pushed lies in the shard the
\* thread is bound to.
C34_SingleProducerPerShard ==
  /\ \A p1, p2 \in Producers :
        (p1 # p2 /\ producers[p1].local_index # unbound /\ producers[p2].local_index # unbound)
          => producers[p1].local_index # producers[p2].local_index
  /\ \A s \in Shards, i \in Slots :
        order_queues[s].buffer[i].producer \in Producers
          => producers[order_queues[s].buffer[i].producer].local_index = s

\* C35: every trade of a command pairs two different orders of opposite
\* sides: the buy order id names a buy order, the sell order id another order,
\* a sell order, and the incoming order is matched neither against itself nor
\* against an order of its own side.
C35_TradePairsOppositeSides ==
  \A i \in 1..Len(lastTrades) :
    /\ lastTrades[i].taker # lastTrades[i].maker
    /\ lastTrades[i].buy_order_id # lastTrades[i].sell_order_id
    /\ lastTrades[i].taker_side # lastTrades[i].maker_side

\* C36: no command uses an Order after deleting it: the incoming order of an
\* Add is not deleted while it is being matched (a trade of the order against
\* itself that fills it: filled_quantity becomes quantity plus what was left),
\* so it is alive when processMatching returns and is deleted at most once.
C36_NoUseAfterDelete ==
  ~(/\ crashed
    /\ lastCmd.type = "Add"
    /\ \E i \in 1..Len(lastTrades) :
         /\ lastTrades[i].taker = lastTrades[i].maker
         /\ ULe(lastCmd.quantity, lastCmd.quantity + lastTrades[i].taker_remaining))

\* C37: the ladders and the indexes are touched by the consumer thread alone:
\* no thread is in the body of poll while the consumer is in the handler of a
\* command.
C37_BookOwnedByConsumer ==
  ~(consumer.pc = "apply" /\ poller = "polling")

\* C38: quantity arithmetic never wraps: no order has filled more than its
\* quantity (its remaining quantity is not the result of an underflow), and the
\* total_quantity of a level is the sum of the remaining quantities of its
\* orders without that sum passing 2^64 (as an unsigned value it is at least
\* each of its terms).
C38_QuantitiesNeverWrap ==
  /\ \A id \in DOMAIN orders : ULe(orders[id].filled_quantity, orders[id].quantity)
  /\ \A h \in DOMAIN levels :
        /\ levels[h].total_quantity = SumRemaining(levels[h].q)
        /\ \A id \in Range(levels[h].q) :
              ULe(remainingQuantity(orders[id]), levels[h].total_quantity)

\* C39: destroying the OrderBook terminates: once the destructor has stored
\* running_ = false and notified, the consumer thread leaves processLoop and
\* join returns.
C39_DestructorTerminates ==
  (destructor.pc = "join") ~> (destructor.pc = "destroyed")

\* C40: a LockFreeQueue with one producer and one consumer is a bounded FIFO
\* under every interleaving: the items popped are, in order, the first of the
\* items pushed (none lost, duplicated or overwritten), at most Capacity - 1
\* items are stored, a push returns false exactly when Capacity - 1 items are
\* stored and a pop returns false exactly when none is.
C40_BoundedFifo ==
  /\ Len(lfq.popped) <= Len(lfq.pushed)
  /\ \A i \in 1..Len(lfq.popped) : lfq.popped[i] = lfq.pushed[i]
  /\ \A i, j \in 1..Len(lfq.pushed) : i < j => lfq.pushed[i] < lfq.pushed[j]
  /\ Len(lfq.pushed) - Len(lfq.popped) <= Capacity - 1
  /\ lfq.last_push.returned = "false" => lfq.last_push.stored = Capacity - 1
  /\ lfq.last_push.returned = "true" => lfq.last_push.stored < Capacity - 1
  /\ lfq.last_pop.returned = "false" => lfq.last_pop.stored = 0
  /\ lfq.last_pop.returned = "true" => lfq.last_pop.stored > 0

\* the ring has wrapped around: four items have been popped in order, the
\* fourth from a slot used before, and the push after them was refused
C40_Witness ==
  /\ lfq.popped = <<1, 2, 3, 4>>
  /\ lfq.last_push.returned = "false"
  /\ lfq.last_pop.returned = "true"

====
